---- MODULE Spec2Model ----
(***************************************************************************)
(* Model of fetchAndSaveFast (src/oldFetch.py): the acquisition loop that  *)
(* configures the oscilloscope, creates the HDF5 datasets, and then, batch *)
(* by batch, stamps the elapsed time, triggers, fetches every channel,     *)
(* grows the sample dimension when needed and writes one row and six       *)
(* scalars per sub-event, recovering from per-batch exceptions.            *)
(*                                                                         *)
(* One action per statement group of the function; pc is the position of   *)
(* the single thread of control.  The instrument driver (LeCrunch3) and    *)
(* the file library (h5py) are the environment: their calls either return  *)
(* or raise, the raise being a nondeterministic choice limited by a fault  *)
(* budget.  A user interrupt (KeyboardInterrupt) may arrive at any         *)
(* position inside the outer try block.                                    *)
(***************************************************************************)
EXTENDS Integers, Sequences, FiniteSets, TLC

\* ---- bounds of the model ----
MaxEvents == 3      \* nevents ranges over 1..MaxEvents
MaxSeq == 2         \* requested and confirmed batch sizes range over 1..MaxSeq
MaxCount == 3       \* wave_array_count of a descriptor ranges over 2..MaxCount
MaxFaults == 2      \* number of driver/library calls that may raise in one run
MaxChanges == 2     \* number of times the instrument changes a record length
MaxClock == 2       \* the elapsed-time clock counts its readings up to MaxClock
NumChannels == 2    \* active channels reported by get_channels()

\* Saturation value of the trigger-call counter (and of the data tags).
TrigCap == MaxEvents + MaxFaults + 1

VARIABLES
    nevents,        \* argument: total event target
    nsequence,      \* argument: requested batch size
    b16acq,         \* argument: 16 bit acquisition flag
    pc,             \* position of the thread of control
    i,              \* write cursor
    sequence_count, \* batch size read back from the settings
    scopeSetsDef,   \* TRUE when the local scopeSets is bound
    current_dim,    \* tracked capacity per channel
    conn,           \* "none" | "open": the LeCrunch3 object exists
    fileState,      \* "none" | "open" | "closed"
    cols,           \* column count of c<ch>_samples
    rows,           \* rows[ch][idx]: the stored sample row
    scal,           \* scal[ch][idx][field]: the six scalar datasets
    secs,           \* seconds_from_start
    chIdx,          \* position in the channel list (setup loop and batch loop)
    n,              \* sub-event index of the inner loop
    k,              \* next dataset to write for sub-event n (1 = samples)
    wave,           \* result of the last get_waveform_all: [count, tag]
    clock,          \* last reading of time.time() - startTime (0 before the first)
    trig,           \* number of trigger() calls so far (saturating)
    faults,         \* raised driver/library calls so far
    recLen,         \* recLen[ch]: wave_array_count the instrument sends for ch
    changes,        \* changes of a record length so far
    seenMax,        \* seenMax[ch]: largest per-sub-event count compared so far
    initDim,        \* initDim[ch]: per-sub-event count of the setup descriptor
    nw,             \* nw[ch][idx][field]: completed writes (saturating at 2)
    secW,           \* indices of seconds_from_start that were written
    exitCause,      \* why the loop was left: "none","complete","cancel","error"
    anyFail,        \* TRUE once a batch attempt raised
    retryOf,        \* cursor of the last failed attempt since the last advance, or -1
    handed,         \* last sample write: <<length of the row handed over, columns>>
    failStage,      \* statement that raised last: "none", "trigger", "fetch",
                    \* "resize", "decode", "write", "recover", "scopeSets"
    settingsSeq,    \* settings["SEQUENCE"] as read back: [mode, cnt]
    att,            \* <<ch, idx, field>> written by the current batch attempt
    dimAtStart,     \* current_dim when the current batch attempt started
    closeCalled,    \* f.close() was invoked
    finalClear,     \* scope.clear() of the finally block was invoked
    ret             \* value returned, or -1

vars == <<nevents, nsequence, b16acq, pc, i, sequence_count, scopeSetsDef,
          current_dim, conn, fileState, cols, rows, scal, secs, chIdx, n, k,
          wave, clock, trig, faults, recLen, changes, seenMax, initDim, nw, secW,
          exitCause,
          anyFail, retryOf, handed, failStage, settingsSeq, att,
          dimAtStart, closeCalled, finalClear, ret>>

args == <<nevents, nsequence, b16acq>>
instr == <<recLen, changes, seenMax, initDim>>
file == <<fileState, cols, rows, scal, secs>>
obs == <<nw, secW, handed, att>>
ends == <<closeCalled, finalClear, ret>>

\* ---- values ----
Channels == 1..NumChannels
\* "for channel in channels": the channels in iteration order.
ChannelOrder == [c \in 1..NumChannels |-> c]
WaveCounts == 2..MaxCount
NoWave == [count |-> 0, tag |-> 0]

\* The datasets written per sub-event, in the order of lines 118-124.
FieldOrder == <<"samples", "vert_offset", "vert_scale", "horiz_offset",
                "horiz_scale", "trig_offset", "trig_time">>
Scalars == {FieldOrder[x] : x \in 2..Len(FieldOrder)}
Fields == {FieldOrder[x] : x \in 1..Len(FieldOrder)}

Min(a, b) == IF a < b THEN a ELSE b
Max(a, b) == IF a < b THEN b ELSE a
Sat(x, cap) == IF x < cap THEN x + 1 ELSE cap
Zeros(len) == [j \in 1..len |-> 0]
Indices == 0..(nevents - 1)

\* ---- pure parts of the code ----

\* Lines 61-64: the batch size is the second item of SEQUENCE when it reports
\* ON, else 1.
SequenceCount(mode, cnt) == IF mode = "ON" THEN cnt ELSE 1

\* Lines 80 and 108: wave_array_count // sequence_count.
NumSamples(count, seq) == count \div seq

\* Line 109: int(1 * num_samples).
NumSamplesToSave(num) == num

\* Dataset.resize(size, axis=0): the resize applied to the event axis.
ResizeAxis0(rws, newc) ==
    [idx \in 0..(newc - 1) |->
        IF idx \in DOMAIN rws THEN rws[idx] ELSE Zeros(Len(rws[0]))]

\* Line 112: Dataset.resize(size, axis=1): every row keeps its cells and new
\* cells read the fill value 0.
Resize(rws, newc) ==
    [idx \in DOMAIN rws |->
        [j \in 1..newc |-> IF j <= Len(rws[idx]) THEN rws[idx][j] ELSE 0]]

\* Line 113: wave_array.reshape(sequence_count, size // sequence_count) raises
\* unless the size is a multiple of sequence_count.
ReshapeOk(count, seq) == count % seq = 0

\* Line 113: sub-event m of the reshaped array; every cell carries the tag
\* of the fetch it came from.
Trace(w, seq, m) == [j \in 1..(w.count \div seq) |-> w.tag]

\* Line 117 copying one sample fewer than the record holds.
ScratchRowShort(dim, num, toSave, trace) ==
    [j \in 1..dim |->
        IF j <= Min(num, dim) - 1 /\ j <= Min(toSave, Len(trace)) THEN trace[j] ELSE 0]

\* Lines 115 and 117: zeros(current_dim) with cells 0..num_samples-1 replaced
\* by traces[n][:num_samples_toSave].
ScratchRow(dim, num, toSave, trace) ==
    [j \in 1..dim |->
        IF j <= Min(num, dim) /\ j <= Min(toSave, Len(trace)) THEN trace[j] ELSE 0]

\* Line 118 with a file library that accepts any index from 0 upwards.
IndexOkLoose(idx, nrows) == idx >= 0

\* Line 118: an integer index outside the first axis raises.
IndexOk(idx, nrows) == idx >= 0 /\ idx < nrows

\* Line 118: h5py accepts a source whose length is the row's length, or 1
\* (broadcast over the row); any other length raises.
Broadcastable(srcLen, ncols) == srcLen = ncols \/ srcLen = 1

\* Line 118: the row stored by a write the library accepted.
StoredRow(src, ncols) ==
    IF Len(src) = ncols THEN src ELSE [j \in 1..ncols |-> src[1]]

\* Lines 119-124: the scalar written into a field; the four descriptor
\* fields and the two per-sub-event arrays all come from the same fetch.
ScalarValue(w, field, m) == w.tag

\* ---- initial state: the arguments __main__ accepts (line 159) ----
Init ==
    /\ nevents \in 1..MaxEvents
    /\ nsequence \in 1..MaxSeq
    /\ b16acq \in BOOLEAN
    /\ pc = "s_connect"
    /\ i = 0
    /\ sequence_count = 0
    /\ scopeSetsDef = FALSE
    /\ current_dim = <<>>
    /\ conn = "none"
    /\ fileState = "none"
    /\ cols = <<>>
    /\ rows = <<>>
    /\ scal = <<>>
    /\ secs = <<>>
    /\ chIdx = 0
    /\ n = 0
    /\ k = 0
    /\ wave = NoWave
    /\ clock = 0
    /\ trig = 0
    /\ faults = 0
    /\ recLen = <<>>
    /\ changes = 0
    /\ seenMax = <<>>
    /\ initDim = <<>>
    /\ nw = <<>>
    /\ secW = {}
    /\ exitCause = "none"
    /\ anyFail = FALSE
    /\ retryOf = -1
    /\ handed = <<0, 0>>
    /\ failStage = "none"
    /\ settingsSeq = [mode |-> "OFF", cnt |-> 1]
    /\ att = {}
    /\ dimAtStart = <<>>
    /\ closeCalled = FALSE
    /\ finalClear = FALSE
    /\ ret = -1

\* A driver or library call raises: allowed while the fault budget lasts.
MayFault == faults < MaxFaults

\* An exception leaves fetchAndSaveFast before the try block: nothing more runs.
Propagate ==
    /\ MayFault
    /\ faults' = faults + 1
    /\ pc' = "raised"

\* ---- setup, lines 45-96 (outside the try block) ----

\* Line 46: LeCrunch3(ip, timeout).
Connect ==
    /\ pc = "s_connect"
    /\ \/ /\ conn' = "open"
          /\ pc' = "s_config"
          /\ UNCHANGED faults
       \/ /\ Propagate
          /\ UNCHANGED conn
    /\ UNCHANGED <<args, instr, i, sequence_count, settingsSeq, scopeSetsDef, current_dim, file,
                   chIdx, n, k, wave, clock, trig, obs, exitCause, anyFail, failStage,
                   retryOf, dimAtStart, ends>>

\* Lines 47-70: clear, set_sequence_mode, the b16acq settings round trip,
\* get_channels, get_settings and the batch size read back from SEQUENCE.
Configure ==
    /\ pc = "s_config"
    /\ \/ /\ \E mode \in {"ON", "OFF"}, cnt \in 1..MaxSeq :
                /\ settingsSeq' = [mode |-> mode, cnt |-> cnt]
                /\ sequence_count' = SequenceCount(mode, cnt)
          /\ scopeSetsDef' = b16acq
          /\ pc' = "s_open"
          /\ UNCHANGED faults
       \/ /\ Propagate
          /\ UNCHANGED <<sequence_count, settingsSeq, scopeSetsDef>>
    /\ UNCHANGED <<args, instr, i, current_dim, conn, file, chIdx, n, k, wave, clock,
                   trig, obs, exitCause, anyFail, failStage, retryOf, dimAtStart, ends>>

\* Lines 72-75: h5py.File(filename, "w"), the attributes, current_dim = {}.
OpenFile ==
    /\ pc = "s_open"
    /\ \/ /\ fileState' = "open"
          /\ chIdx' = 1
          /\ pc' = "s_desc"
          /\ UNCHANGED faults
       \/ /\ Propagate
          /\ UNCHANGED <<fileState, chIdx>>
    /\ UNCHANGED <<args, instr, i, sequence_count, settingsSeq, scopeSetsDef, current_dim, conn,
                   cols, rows, scal, secs, n, k, wave, clock, trig, obs,
                   exitCause, anyFail, failStage, retryOf, dimAtStart, ends>>

\* Lines 78-95, one channel: get_wavedesc, the initial capacity, and the
\* seven datasets of the channel, all with nevents rows.
Describe ==
    /\ pc = "s_desc"
    /\ \/ /\ \E count \in WaveCounts :
             LET ch == ChannelOrder[chIdx]
                 dim == NumSamples(count, sequence_count)
             IN /\ current_dim' = (ch :> dim) @@ current_dim
                /\ cols' = (ch :> dim) @@ cols
                /\ rows' = (ch :> [idx \in Indices |-> Zeros(dim)]) @@ rows
                /\ scal' = (ch :> [idx \in Indices |-> [f \in Scalars |-> 0]]) @@ scal
                /\ nw' = (ch :> [idx \in Indices |-> [f \in Fields |-> 0]]) @@ nw
                /\ recLen' = (ch :> count) @@ recLen
                /\ seenMax' = (ch :> dim) @@ seenMax
                /\ initDim' = (ch :> dim) @@ initDim
          /\ IF chIdx < NumChannels
                THEN /\ chIdx' = chIdx + 1
                     /\ pc' = "s_desc"
                ELSE /\ chIdx' = 0
                     /\ pc' = "s_secs"
          /\ UNCHANGED faults
       \/ /\ Propagate
          /\ UNCHANGED <<current_dim, cols, rows, scal, nw, chIdx, recLen,
                         seenMax, initDim>>
    /\ UNCHANGED <<args, changes, i, sequence_count, settingsSeq, scopeSetsDef, conn, fileState, secs,
                   n, k, wave, clock, trig, secW, handed, att, exitCause,
                   anyFail, failStage, retryOf, dimAtStart, ends>>

\* Lines 96 and 99: the seconds_from_start dataset, then i = 0 inside try.
CreateSeconds ==
    /\ pc = "s_secs"
    /\ secs' = [idx \in Indices |-> 0]
    /\ i' = 0
    /\ pc' = "loop"
    /\ UNCHANGED <<args, instr, sequence_count, settingsSeq, scopeSetsDef, current_dim, conn,
                   fileState, cols, rows, scal, chIdx, n, k, wave, clock, trig,
                   faults, obs, exitCause, anyFail, failStage, retryOf, dimAtStart, ends>>

\* ---- the batch loop, lines 100-131 (inside both try blocks) ----

\* An exception inside the inner try swallowed with the batch counted as done.
RaiseCountsBatch(stage) ==
    /\ pc' = "advance"
    /\ failStage' = stage
    /\ anyFail' = TRUE
    /\ retryOf' = i
    /\ chIdx' = 0
    /\ n' = 0
    /\ k' = 0
    /\ wave' = NoWave

\* An exception of class Exception inside the inner try: control goes to the
\* handler of line 126; the loop locals are dead from here on.
Raise(stage) ==
    /\ pc' = "h_clear"
    /\ failStage' = stage
    /\ anyFail' = TRUE
    /\ retryOf' = i
    /\ chIdx' = 0
    /\ n' = 0
    /\ k' = 0
    /\ wave' = NoWave

\* Line 100: while i < nevents.  A new batch attempt starts here: the
\* per-attempt observations are reset.
LoopTest ==
    /\ pc = "loop"
    /\ IF i < nevents
          THEN /\ pc' = "stamp"
               /\ UNCHANGED exitCause
          ELSE /\ pc' = "finally"
               /\ exitCause' = "complete"
    /\ att' = {}
    /\ dimAtStart' = current_dim
    /\ handed' = <<0, 0>>
    /\ failStage' = "none"
    /\ UNCHANGED <<args, instr, i, sequence_count, settingsSeq, scopeSetsDef, current_dim, conn,
                   file, chIdx, n, k, wave, clock, trig, faults, nw, secW,
                   anyFail, retryOf, ends>>

\* Line 104 writing the elapsed time only where none was written before.
StampOnce ==
    /\ pc = "stamp"
    /\ clock' = Sat(clock, MaxClock)
    /\ secs' = IF i \in secW THEN secs ELSE [secs EXCEPT ![i] = clock']
    /\ secW' = secW \cup {i}
    /\ pc' = "trigger"
    /\ UNCHANGED <<args, instr, i, sequence_count, settingsSeq, scopeSetsDef, current_dim, conn,
                   fileState, cols, rows, scal, chIdx, n, k, wave, trig, faults,
                   nw, handed, att, exitCause, anyFail, failStage, retryOf, dimAtStart,
                   ends>>

\* Line 104: f["seconds_from_start"][i] = time.time() - startTime; the clock
\* is a counter of its readings and never runs backwards.
Stamp ==
    /\ pc = "stamp"
    /\ clock' = Sat(clock, MaxClock)
    /\ secs' = [secs EXCEPT ![i] = clock']
    /\ secW' = secW \cup {i}
    /\ pc' = "trigger"
    /\ UNCHANGED <<args, instr, i, sequence_count, settingsSeq, scopeSetsDef, current_dim, conn,
                   fileState, cols, rows, scal, chIdx, n, k, wave, trig, faults,
                   nw, handed, att, exitCause, anyFail, failStage, retryOf, dimAtStart,
                   ends>>

\* Line 105: scope.trigger(); raises on timeout or a dropped connection.
Trigger ==
    /\ pc = "trigger"
    /\ trig' = Sat(trig, TrigCap)
    /\ \/ /\ pc' = "fetch"
          /\ chIdx' = 1
          /\ UNCHANGED <<faults, anyFail, failStage, retryOf, n, k, wave>>
       \/ /\ MayFault
          /\ faults' = faults + 1
          /\ Raise("trigger")
    /\ UNCHANGED <<args, instr, i, sequence_count, settingsSeq, scopeSetsDef, current_dim, conn,
                   file, clock, obs, exitCause, dimAtStart, ends>>

\* Lines 107-109: get_waveform_all(channel) and the per-sub-event count.  The
\* call raises, or returns a record.  The record has the length of the
\* channel's previous one unless the instrument changed it (a bounded number
\* of times); a record whose sample count is not a multiple of the batch
\* size is an instrument fault and is charged to the fault budget.
Fetch ==
    /\ pc = "fetch"
    /\ \/ /\ \E count \in WaveCounts :
             LET ch == ChannelOrder[chIdx]
             IN /\ wave' = [count |-> count, tag |-> trig]
                /\ IF count = recLen[ch]
                      THEN UNCHANGED <<recLen, changes>>
                      ELSE /\ changes < MaxChanges
                           /\ changes' = changes + 1
                           /\ recLen' = [recLen EXCEPT ![ch] = count]
                /\ IF ReshapeOk(count, sequence_count)
                      THEN UNCHANGED faults
                      ELSE /\ MayFault
                           /\ faults' = faults + 1
          /\ pc' = "grow"
          /\ UNCHANGED <<seenMax, initDim, anyFail, failStage, retryOf, chIdx, n, k>>
       \/ /\ MayFault
          /\ faults' = faults + 1
          /\ Raise("fetch")
          /\ UNCHANGED instr
    /\ UNCHANGED <<args, i, sequence_count, settingsSeq, scopeSetsDef, current_dim, conn,
                   file, clock, trig, obs, exitCause, dimAtStart, ends>>

\* Lines 110-112 without the comparison: the capacity follows every record.
GrowAlways ==
    /\ pc = "grow"
    /\ LET ch == ChannelOrder[chIdx]
           toSave == NumSamplesToSave(NumSamples(wave.count, sequence_count))
       IN /\ current_dim' = [current_dim EXCEPT ![ch] = toSave]
          /\ seenMax' = [seenMax EXCEPT ![ch] = Max(@, toSave)]
          /\ IF cols[ch] < toSave
                THEN /\ cols' = [cols EXCEPT ![ch] = toSave]
                     /\ rows' = [rows EXCEPT ![ch] = Resize(rows[ch], toSave)]
                ELSE UNCHANGED <<cols, rows>>
          /\ pc' = "reshape"
          /\ UNCHANGED <<faults, anyFail, failStage, retryOf, chIdx, n, k, wave>>
    /\ UNCHANGED <<args, recLen, changes, initDim, i, sequence_count, settingsSeq,
                   scopeSetsDef, conn, fileState, scal,
                   secs, clock, trig, obs, exitCause, dimAtStart, ends>>

\* Lines 110-112: a longer record first raises the tracked capacity and then
\* resizes the dataset; a resize that raises leaves the capacity raised.
Grow ==
    /\ pc = "grow"
    /\ LET ch == ChannelOrder[chIdx]
           toSave == NumSamplesToSave(NumSamples(wave.count, sequence_count))
       IN /\ seenMax' = [seenMax EXCEPT ![ch] = Max(@, toSave)]
          /\ IF current_dim[ch] < toSave
             THEN /\ current_dim' = [current_dim EXCEPT ![ch] = toSave]
                  /\ \/ /\ cols' = [cols EXCEPT ![ch] = toSave]
                        /\ rows' = [rows EXCEPT ![ch] = Resize(rows[ch], toSave)]
                        /\ pc' = "reshape"
                        /\ UNCHANGED <<faults, anyFail, failStage, retryOf, chIdx, n, k, wave>>
                     \/ /\ MayFault
                        /\ faults' = faults + 1
                        /\ Raise("resize")
                        /\ UNCHANGED <<cols, rows>>
             ELSE /\ pc' = "reshape"
                  /\ UNCHANGED <<current_dim, cols, rows, faults, anyFail, failStage,
                                 retryOf, chIdx, n, k, wave>>
    /\ UNCHANGED <<args, recLen, changes, initDim, i, sequence_count, settingsSeq,
                   scopeSetsDef, conn, fileState, scal,
                   secs, clock, trig, obs, exitCause, dimAtStart, ends>>

\* Lines 113-116: reshape into sub-events, allocate scratch, enter the
\* sub-event loop.
Reshape ==
    /\ pc = "reshape"
    /\ IF ReshapeOk(wave.count, sequence_count)
          THEN /\ pc' = "write"
               /\ n' = 0
               /\ k' = 1
               /\ UNCHANGED <<anyFail, failStage, retryOf, chIdx, wave>>
          ELSE Raise("decode")
    /\ UNCHANGED <<args, instr, i, sequence_count, settingsSeq, scopeSetsDef, current_dim, conn,
                   file, clock, trig, faults, obs, exitCause, dimAtStart, ends>>

\* The sub-event loop leaving out the last dataset (trig_time).
NextWriteSkipsLast ==
    IF k < Len(FieldOrder) - 1
       THEN /\ k' = k + 1
            /\ pc' = "write"
            /\ UNCHANGED <<n, chIdx, wave>>
       ELSE IF n + 1 < sequence_count
               THEN /\ n' = n + 1
                    /\ k' = 1
                    /\ pc' = "write"
                    /\ UNCHANGED <<chIdx, wave>>
               ELSE /\ n' = 0
                    /\ k' = 0
                    /\ wave' = NoWave
                    /\ IF chIdx < NumChannels
                          THEN /\ chIdx' = chIdx + 1
                               /\ pc' = "fetch"
                          ELSE /\ chIdx' = 0
                               /\ pc' = "advance"

\* Where control goes after the write at position k of sub-event n: the next
\* dataset, the next sub-event, the next channel, or line 131.
NextWrite ==
    IF k < Len(FieldOrder)
       THEN /\ k' = k + 1
            /\ pc' = "write"
            /\ UNCHANGED <<n, chIdx, wave>>
       ELSE IF n + 1 < sequence_count
               THEN /\ n' = n + 1
                    /\ k' = 1
                    /\ pc' = "write"
                    /\ UNCHANGED <<chIdx, wave>>
               ELSE /\ n' = 0
                    /\ k' = 0
                    /\ wave' = NoWave
                    /\ IF chIdx < NumChannels
                          THEN /\ chIdx' = chIdx + 1
                               /\ pc' = "fetch"
                          ELSE /\ chIdx' = 0
                               /\ pc' = "advance"

\* Lines 117-124, one assignment: the padded row (k = 1) or one of the six
\* scalars at global index i + n.
WriteField ==
    /\ pc = "write"
    /\ LET ch == ChannelOrder[chIdx]
           idx == i + n
           fld == FieldOrder[k]
           num == NumSamples(wave.count, sequence_count)
           scratch == ScratchRow(current_dim[ch], num, NumSamplesToSave(num),
                                 Trace(wave, sequence_count, n))
           accepted == /\ IndexOk(idx, nevents)
                       /\ k = 1 => Broadcastable(Len(scratch), cols[ch])
       IN /\ handed' = IF k = 1 THEN <<Len(scratch), cols[ch]>> ELSE handed
          /\ IF accepted
                THEN /\ IF k = 1
                           THEN /\ rows' = [rows EXCEPT ![ch][idx] =
                                               StoredRow(scratch, cols[ch])]
                                /\ UNCHANGED scal
                           ELSE /\ scal' = [scal EXCEPT ![ch][idx][fld] =
                                               ScalarValue(wave, fld, n)]
                                /\ UNCHANGED rows
                     /\ nw' = [nw EXCEPT ![ch][idx][fld] = Sat(@, 2)]
                     /\ att' = att \cup {<<ch, idx, fld>>}
                     /\ NextWrite
                     /\ UNCHANGED <<anyFail, failStage, retryOf>>
                ELSE /\ Raise("write")
                     /\ UNCHANGED <<rows, scal, nw, att>>
    /\ UNCHANGED <<args, instr, i, sequence_count, settingsSeq, scopeSetsDef, current_dim, conn,
                   fileState, cols, secs, clock, trig, faults, secW, exitCause,
                   dimAtStart, ends>>

\* Line 131 with the requested batch size in place of the confirmed one.
AdvanceByRequested ==
    /\ pc = "advance"
    /\ i' = i + nsequence
    /\ retryOf' = -1
    /\ pc' = "loop"
    /\ UNCHANGED <<args, instr, sequence_count, settingsSeq, scopeSetsDef, current_dim, conn, file,
                   chIdx, n, k, wave, clock, trig, faults, obs, exitCause,
                   anyFail, failStage, dimAtStart, ends>>

\* Line 131: i += sequence_count.
Advance ==
    /\ pc = "advance"
    /\ i' = i + sequence_count
    /\ retryOf' = -1
    /\ pc' = "loop"
    /\ UNCHANGED <<args, instr, sequence_count, settingsSeq, scopeSetsDef, current_dim, conn, file,
                   chIdx, n, k, wave, clock, trig, faults, obs, exitCause,
                   anyFail, failStage, dimAtStart, ends>>

\* ---- the handler of line 126 ----

\* An exception inside the handler reaches the bare except of line 132.
HandlerFails(stage) ==
    /\ pc' = "finally"
    /\ failStage' = stage
    /\ exitCause' = "error"

\* Lines 127-128: report, scope.clear().
RecoverClear ==
    /\ pc = "h_clear"
    /\ \/ /\ pc' = "h_set"
          /\ UNCHANGED <<faults, exitCause, failStage>>
       \/ /\ MayFault
          /\ faults' = faults + 1
          /\ HandlerFails("recover")
    /\ UNCHANGED <<args, instr, i, sequence_count, settingsSeq, scopeSetsDef, current_dim, conn,
                   file, chIdx, n, k, wave, clock, trig, obs, anyFail, retryOf,
                   dimAtStart, ends>>

\* The handler with the cursor stepped past the failed batch before continue.
RecoverSettingsAdvancing ==
    /\ pc = "h_set"
    /\ IF scopeSetsDef
          THEN /\ pc' = "loop"
               /\ i' = i + sequence_count
               /\ UNCHANGED <<faults, exitCause, failStage>>
          ELSE /\ HandlerFails("scopeSets")
               /\ UNCHANGED <<faults, i>>
    /\ UNCHANGED <<args, instr, sequence_count, settingsSeq, scopeSetsDef, current_dim, conn,
                   file, chIdx, n, k, wave, clock, trig, obs, anyFail, retryOf,
                   dimAtStart, ends>>

\* Lines 129-130: scope.set_settings(scopeSets), continue.  scopeSets is
\* bound only when b16acq was set (line 50): otherwise the name lookup raises.
RecoverSettings ==
    /\ pc = "h_set"
    /\ IF scopeSetsDef
          THEN \/ /\ pc' = "loop"
                  /\ UNCHANGED <<faults, exitCause, failStage>>
               \/ /\ MayFault
                  /\ faults' = faults + 1
                  /\ HandlerFails("recover")
          ELSE /\ HandlerFails("scopeSets")
               /\ UNCHANGED faults
    /\ UNCHANGED <<args, instr, i, sequence_count, settingsSeq, scopeSetsDef, current_dim, conn,
                   file, chIdx, n, k, wave, clock, trig, obs, anyFail, retryOf,
                   dimAtStart, ends>>

\* ---- cancellation and teardown, lines 132-140 ----

\* The positions inside the outer try block.
TryPcs == {"loop", "stamp", "trigger", "fetch", "grow", "reshape", "write",
           "advance", "h_clear", "h_set"}

\* The interrupt caught by the handler of line 126, as if it were an Exception.
CancelRetried ==
    /\ pc \in TryPcs
    /\ pc' = "h_clear"
    /\ exitCause' = "cancel"
    /\ chIdx' = 0
    /\ n' = 0
    /\ k' = 0
    /\ wave' = NoWave
    /\ UNCHANGED <<args, instr, i, sequence_count, settingsSeq, scopeSetsDef, current_dim, conn,
                   file, clock, trig, faults, obs, anyFail, failStage,
                   retryOf, dimAtStart, ends>>

\* KeyboardInterrupt: not an Exception, so only the bare except of line 132
\* catches it.
Cancel ==
    /\ pc \in TryPcs
    /\ pc' = "finally"
    /\ exitCause' = "cancel"
    /\ chIdx' = 0
    /\ n' = 0
    /\ k' = 0
    /\ wave' = NoWave
    /\ UNCHANGED <<args, instr, i, sequence_count, settingsSeq, scopeSetsDef, current_dim, conn,
                   file, clock, trig, faults, obs, anyFail, failStage,
                   retryOf, dimAtStart, ends>>

\* Lines 135-138: f.close().
CloseFile ==
    /\ pc = "finally"
    /\ fileState' = "closed"
    /\ closeCalled' = TRUE
    /\ pc' = "f_clear"
    /\ UNCHANGED <<args, instr, i, sequence_count, settingsSeq, scopeSetsDef, current_dim, conn,
                   cols, rows, scal, secs, chIdx, n, k, wave, clock, trig,
                   faults, obs, exitCause, anyFail, failStage, retryOf, dimAtStart,
                   finalClear, ret>>

\* Lines 139-140: scope.clear(), return i; a clear() that raises leaves the
\* finally block before the return.
FinalClear ==
    /\ pc = "f_clear"
    /\ finalClear' = TRUE
    /\ \/ /\ ret' = i
          /\ pc' = "returned"
          /\ UNCHANGED faults
       \/ /\ Propagate
          /\ UNCHANGED ret
    /\ UNCHANGED <<args, instr, i, sequence_count, settingsSeq, scopeSetsDef, current_dim, conn,
                   file, chIdx, n, k, wave, clock, trig, obs, exitCause,
                   anyFail, failStage, retryOf, dimAtStart, closeCalled>>

Next ==
    \/ Connect
    \/ Configure
    \/ OpenFile
    \/ Describe
    \/ CreateSeconds
    \/ LoopTest
    \/ Stamp
    \/ Trigger
    \/ Fetch
    \/ Grow
    \/ Reshape
    \/ WriteField
    \/ Advance
    \/ RecoverClear
    \/ RecoverSettings
    \/ Cancel
    \/ CloseFile
    \/ FinalClear

Spec == Init /\ [][Next]_vars

\* The thread of control always takes its next step; the budget of faults
\* makes the faulting calls finitely many.
FairSpec == Spec /\ WF_vars(Next)

\* ---- properties ----

Ended == pc \in {"returned", "raised"}

\* The global indices at which the current attempt wrote dataset f of ch.
AttIdx(ch, f) == {t[2] : t \in {u \in att : u[1] = ch /\ u[3] = f}}

\* The batch size the settings read back state: the count when SEQUENCE
\* reports ON, else 1.
ConfirmedBatch == IF settingsSeq.mode = "ON" THEN settingsSeq.cnt ELSE 1

\* C1: a batch attempt that raised at cursor i leaves the cursor at i while
\* the loop runs on, and the batch that then succeeds has written exactly the
\* indices i .. i+batchSize-1 of every dataset of every channel.
C1_RecoveryKeepsCursor ==
    /\ (retryOf # -1 /\ pc \in TryPcs) => i = retryOf
    /\ (retryOf # -1 /\ pc = "advance") =>
          \A ch \in Channels, f \in Fields :
              AttIdx(ch, f) = retryOf..(retryOf + sequence_count - 1)

\* A batch at a cursor above 0 failed, was retried and has now succeeded.
C1_Witness == pc = "advance" /\ retryOf = i /\ i > 0

\* C2: whenever the session has ended with the connection open, the final
\* clear() was invoked, and with the file opened, close() was invoked.
C2_TeardownOnEveryExit ==
    Ended => /\ conn = "open" => finalClear
             /\ fileState # "none" => closeCalled

\* C3: with finitely many faults, a run of the loop that is neither
\* cancelled, nor ended by an exception leaving the handler or the teardown,
\* nor hit by a resize that raised, reaches i >= nevents and returns the
\* cursor: it does not retry forever.
C3_Terminates ==
    <>(\/ exitCause \in {"cancel", "error"}
       \/ pc = "raised"
       \/ \E ch \in DOMAIN current_dim : current_dim[ch] # cols[ch]
       \/ pc = "returned" /\ exitCause = "complete" /\ i >= nevents /\ ret = i)

\* C4: a cancelled run returns the cursor k with the file closed, every
\* dataset of every channel written at every index below k, and nothing
\* written at an index >= k.
C4_CancelConsistent ==
    (pc = "returned" /\ exitCause = "cancel") =>
        /\ ret = i
        /\ fileState = "closed"
        /\ \A ch \in Channels, idx \in Indices, f \in Fields :
              /\ idx < ret => nw[ch][idx][f] >= 1
              /\ idx >= ret => nw[ch][idx][f] = 0

\* C5: when the fetch or the decode of a channel fails, the attempt has
\* written no row and no scalar, and has changed no capacity.
C5_FailedBatchWritesNothing ==
    (pc = "h_clear" /\ failStage \in {"fetch", "decode"}) =>
        /\ att = {}
        /\ current_dim = dimAtStart

\* C6: the tracked capacity of every channel is the column count of its
\* sample dataset, and every row handed to a write has that length.
C6_RowLenIsCapacity ==
    /\ \A ch \in DOMAIN current_dim : current_dim[ch] = cols[ch]
    /\ handed[1] = handed[2]

\* C7: every step that moves the cursor moves it by the batch size the
\* settings read back state, after exactly that many consecutive indices
\* from the cursor were written in every dataset of every channel.
C7_Stride ==
    [][i' # i =>
          /\ i' = i + ConfirmedBatch
          /\ \A ch \in Channels, f \in Fields :
                AttIdx(ch, f) = i..(i + ConfirmedBatch - 1)]_vars

\* The cursor has advanced with a confirmed batch size other than the
\* requested one.
C7_Witness == pc = "loop" /\ i > 0 /\ sequence_count # nsequence

\* C8: a completed run in which no attempt failed and nevents is a multiple
\* of the batch size issued nevents/batchSize triggers, wrote every dataset
\* of every channel exactly once at every index, and returned nevents.
C8_FailureFreeRun ==
    (pc = "returned" /\ exitCause = "complete" /\ ~anyFail
        /\ nevents % sequence_count = 0) =>
        /\ trig = nevents \div sequence_count
        /\ \A ch \in Channels, idx \in Indices, f \in Fields : nw[ch][idx][f] = 1
        /\ ret = nevents

\* A failure-free run of several batches has returned.
C8_Witness ==
    /\ pc = "returned" /\ exitCause = "complete" /\ ~anyFail
    /\ nevents % sequence_count = 0
    /\ nevents > sequence_count

\* C9: after normal completion seconds_from_start was written at every
\* index and is non-decreasing in the index.
C9_ElapsedPerEvent ==
    (pc = "returned" /\ exitCause = "complete") =>
        /\ secW = Indices
        /\ \A a \in Indices, b \in Indices : a <= b => secs[a] <= secs[b]

\* C10: an exception raised during a batch never ends the loop: unless a
\* recovery call itself raised, the loop is left only by completion or
\* cancellation.
C10_EveryErrorRecovered ==
    exitCause = "error" => failStage = "recover"

\* C11: once a cancellation was delivered, no trigger is issued, no dataset is
\* written or resized and the handler does not run: the only steps left
\* are f.close() and the final scope.clear().
C11_CancelNeverRetried ==
    [][exitCause = "cancel" =>
          /\ pc \in {"finally", "f_clear"}
          /\ pc' \in {"f_clear", "returned", "raised"}
          /\ trig' = trig
          /\ <<cols, rows, scal, secs, current_dim, i>>' =
                <<cols, rows, scal, secs, current_dim, i>>
          /\ exitCause' = "cancel"]_vars

\* A run cancelled in the middle of a batch, after a trigger, has returned.
C11_Witness == pc = "returned" /\ exitCause = "cancel" /\ att # {}

\* The Grow step of a channel whose capacity is below the record it received.
Growing ==
    /\ pc = "grow"
    /\ current_dim[ChannelOrder[chIdx]] <
          NumSamples(wave.count, sequence_count)

\* C12: a channel of capacity C that receives a record of C' > C samples per
\* sub-event has its sample dimension resized to C' in that step, every row
\* keeping its cells and reading zero in the new ones; no other step of
\* the loop resizes a dataset.
C12_GrowthOnce ==
    [][/\ Growing =>
             LET ch == ChannelOrder[chIdx]
                 new == NumSamples(wave.count, sequence_count)
             IN /\ cols'[ch] = new
                /\ \A idx \in Indices :
                      rows'[ch][idx] =
                         rows[ch][idx] \o Zeros(new - Len(rows[ch][idx]))
       /\ (~Growing /\ pc \in TryPcs) => cols' = cols]_vars

\* C13: the tracked capacity of a channel is the maximum of its initial
\* per-sub-event count and of the counts computed since, it never
\* decreases, and a row written from a shorter record is zero beyond the
\* record's count.
C13_CapacityIsMaxSeen ==
    [][/\ \A ch \in DOMAIN current_dim' :
             /\ current_dim'[ch] = seenMax'[ch]
             /\ ch \in DOMAIN current_dim => current_dim'[ch] >= current_dim[ch]
       /\ (pc = "write" /\ k = 1 /\ rows' # rows) =>
             LET ch == ChannelOrder[chIdx]
                 num == NumSamples(wave.count, sequence_count)
             IN /\ Len(rows'[ch][i + n]) = cols[ch]
                /\ \A j \in 1..cols[ch] :
                      j > num => rows'[ch][i + n][j] = 0]_vars

\* A channel grew beyond its initial count and afterwards stored a shorter
\* record: the row holds samples first and zero in its last cell.
C13_Witness ==
    \E ch \in DOMAIN current_dim : \E idx \in Indices :
        /\ current_dim[ch] > initDim[ch]
        /\ cols[ch] = current_dim[ch]
        /\ rows[ch][idx][1] # 0
        /\ rows[ch][idx][cols[ch]] = 0

\* The indices of the batch at the cursor.
Batch == i..(i + sequence_count - 1)

\* C14: when a batch succeeds after failed attempts at the same cursor, its
\* rows, its six scalars and its elapsed-time entry hold only data of the
\* successful attempt: the values of the last trigger and the last clock
\* reading, nothing of an earlier attempt.
C14_RetryOverwrites ==
    (pc = "advance" /\ retryOf = i) =>
        /\ secs[i] = clock
        /\ \A ch \in Channels : \A idx \in Batch :
              /\ \A f \in Scalars : scal[ch][idx][f] = trig
              /\ \A j \in 1..Len(rows[ch][idx]) : rows[ch][idx][j] \in {0, trig}

\* A batch completed on a retry after an attempt that had already written
\* some of its datasets, the two attempts carrying different tags.
C14_Witness ==
    /\ pc = "advance"
    /\ retryOf = i
    /\ trig < TrigCap
    /\ \E ch \in Channels : \E f \in Fields : nw[ch][i][f] = 2

\* C15: every dataset has exactly nevents rows at all times, and a step that
\* grows one channel's sample dataset changes the column count of that
\* channel only: the other channels, the scalar datasets and
\* seconds_from_start are left as they were.
C15_GrowthFrame ==
    [][/\ \A ch \in DOMAIN rows' :
             DOMAIN rows'[ch] = Indices /\ DOMAIN scal'[ch] = Indices
       /\ secs' = <<>> \/ DOMAIN secs' = Indices
       /\ (pc \in TryPcs /\ cols' # cols) =>
             LET ch == ChannelOrder[chIdx]
             IN /\ \A c \in Channels \ {ch} :
                      cols'[c] = cols[c] /\ rows'[c] = rows[c]
                /\ \A idx \in Indices :
                      \A j \in 1..cols[ch] : rows'[ch][idx][j] = rows[ch][idx][j]
                /\ scal' = scal
                /\ secs' = secs]_vars

\* One channel has just been grown beyond its initial count while the other
\* channels still have theirs.
C15_Witness ==
    /\ pc = "reshape"
    /\ \E ch \in Channels :
          /\ ch = ChannelOrder[chIdx]
          /\ cols[ch] > initDim[ch]
          /\ \A c \in Channels \ {ch} : cols[c] = initDim[c]

\* A sample row is stored for sub-event n of the current channel.
RowStored == pc = "write" /\ k = 1 /\ <<ChannelOrder[chIdx], i + n, "samples">> \in att'

\* The row of the given capacity holding the first cnt samples of the record
\* fetched last, zero elsewhere.
PaddedRow(dim, cnt) == [j \in 1..dim |-> IF j <= cnt THEN wave.tag ELSE 0]

\* C16 as stated: the row written is a zero-filled row of the channel's current
\* capacity into which the samples are copied truncated to the channel's
\* initial sample count.
C16_TruncatedToInitial ==
    [][RowStored =>
          LET ch == ChannelOrder[chIdx]
              num == NumSamples(wave.count, sequence_count)
          IN rows'[ch][i + n] =
                PaddedRow(current_dim[ch], Min(num, initDim[ch]))]_vars

\* C16, amended: the row written is a zero-filled row as wide as the channel's
\* sample dataset into which the samples of the sub-event's own record are
\* copied from the first cell on, whatever the channel's initial sample
\* count was.
C16_CopiesWholeRecord ==
    [][RowStored =>
          LET ch == ChannelOrder[chIdx]
              num == NumSamples(wave.count, sequence_count)
          IN rows'[ch][i + n] = PaddedRow(cols[ch], num)]_vars

\* A stored row holds a sample in a cell beyond the channel's initial count.
C16_Witness ==
    \E ch \in DOMAIN rows : \E idx \in Indices :
        /\ Len(rows[ch][idx]) > initDim[ch]
        /\ rows[ch][idx][initDim[ch] + 1] # 0

DoneBatches == {b \in 0..(i - 1) : b % sequence_count = 0}

\* C18: every index below the cursor has a sample row and all six scalars
\* written for every channel, and all values of one batch, over all channels,
\* carry the tag of one single trigger call.
C18_CompleteBatches ==
    i > 0 =>
        /\ \A ch \in Channels : \A idx \in 0..(i - 1) : \A f \in Fields :
              nw[ch][idx][f] >= 1
        /\ \A b \in DoneBatches : \E tag \in 1..TrigCap :
              \A ch \in Channels : \A idx \in b..(b + sequence_count - 1) :
                 /\ \A f \in Scalars : scal[ch][idx][f] = tag
                 /\ \A j \in 1..Len(rows[ch][idx]) : rows[ch][idx][j] \in {0, tag}

\* A batch of two events was completed in a run in which an attempt failed.
C18_Witness ==
    /\ pc = "loop"
    /\ sequence_count = MaxSeq
    /\ i = sequence_count
    /\ anyFail

\* C19: once a recovery call (clear() or set_settings()) has raised, no
\* trigger is issued any more, f.close() and then scope.clear() are invoked,
\* and the function returns the cursor: it never ends by raising.
C19_FailedRecoveryReturns ==
    [][(exitCause = "error" /\ failStage = "recover") =>
          /\ trig' = trig
          /\ i' = i
          /\ finalClear' => closeCalled
          /\ pc' # "raised"
          /\ pc' = "returned" => (ret' = i /\ closeCalled' /\ finalClear')]_vars

====
